---------------------------- MODULE Spec2Model ----------------------------
(***************************************************************************)
(* API_Template (template/template_api.py): one record-mapper instance     *)
(* over a schema, and the storage gateway (self.DB) it writes through.     *)
(*                                                                         *)
(* Values are encoded as integers:                                         *)
(*   NoneVal        Python None                                            *)
(*   0              a falsy non-None value (0, "", empty)                  *)
(*   1 .. MaxVal    truthy plain values; 1 .. MaxId are also identifiers   *)
(*   utcnow         the string str(datetime.datetime.utcnow())             *)
(*   StrBase + v    the string str(v)                                      *)
(* Mappings (dicts, rows, payloads) are functions from names to values.    *)
(***************************************************************************)
EXTENDS Integers, Sequences, FiniteSets

\* ------------------------------------------------------------------ bounds
\* identifiers the gateway hands out are 0 .. MaxId
MaxId == 1
\* truthy plain values a caller assigns are 1 .. MaxVal
MaxVal == 1
\* rows the gateway's table holds before its insert fails
MaxRows == 2

\* ------------------------------------------------------------------ values
NoneVal == -1
utcnow == 90
StrBase == 100

\* Python truthiness of a value: `if val:` / `if pkey:` / `if not pkey:`
Truthy(v) == v # NoneVal /\ v # 0

\* str(val)
str(v) == StrBase + v

\* identifiers the gateway's insert can return (0: a falsy identifier)
GatewayIds == 0 .. MaxId

\* values a caller assigns to an attribute
FieldVals == {NoneVal} \cup (0 .. MaxVal)

EmptyMap == [x \in {} |-> NoneVal]
Put(f, k, v) == [x \in (DOMAIN f) \cup {k} |-> IF x = k THEN v ELSE f[x]]
Del(f, k) == [x \in (DOMAIN f) \ {k} |-> f[x]]
Merge(f, g) == [x \in (DOMAIN f) \cup (DOMAIN g) |-> IF x \in DOMAIN g THEN g[x] ELSE f[x]]

\* ----------------------------------------------------------------- schemas
\* logical field name -> storage column name; the primary key is "id"
PRIMARY_KEY == "id"

SchemaPlain == [k \in {"id", "name"} |-> k]
SchemaCreated ==
    [k \in {"id", "name", "created"} |-> IF k = "created" THEN "created_at" ELSE k]
SchemaModified == [k \in {"id", "modified"} |-> k]
SchemaRenamed == [k \in {"id", "name"} |-> IF k = "name" THEN "full_name" ELSE k]
SchemaSecret == [k \in {"id", "password", "salt"} |-> k]

Schemas ==
    {SchemaPlain, SchemaCreated, SchemaModified, SchemaRenamed, SchemaSecret}

\* the schemas whose writes differ: insert() and update() project with safe=False,
\* where password and salt are fields like any other
WriteSchemas == {SchemaPlain, SchemaCreated, SchemaModified, SchemaRenamed}

\* ----------------------------------------------------------------- results
\* what a call hands back: None, False, a value, a field name, a row, an instance
ResNone == [tag |-> "None", val |-> NoneVal, name |-> ""]
ResFalse == [tag |-> "False", val |-> NoneVal, name |-> ""]
ResVal(v) == [tag |-> "value", val |-> v, name |-> ""]
ResName(n) == [tag |-> "name", val |-> NoneVal, name |-> n]
ResRow(i) == [tag |-> "row", val |-> i, name |-> ""]
ResInstance(i) == [tag |-> "instance", val |-> i, name |-> ""]
ResDict == [tag |-> "dict", val |-> NoneVal, name |-> ""]

\* a result a caller's `if result:` takes as empty
ResFalsy(r) == r.tag \in {"None", "False"} \/ (r.tag = "value" /\ ~Truthy(r.val))

VARIABLES
    schema,       \* self.schema / cls.SCHEMA
    constructed,  \* an instance exists
    attrs,        \* the instance's dynamic attributes: name -> value
    obj_id,       \* self.obj_id
    insertedIds,  \* identifiers insert() returned to this instance when its primary-key
                  \* attribute was absent (None)
    rows,         \* the gateway's committed rows: identifier -> row (column -> value)
    lastOp,       \* the operation the last step ran
    hook,         \* what _validate() did in it: "none" (not run), "passed", "raised"
    outcome,      \* "returned", or the exception the call raised
    result,       \* what the call returned
    calls,        \* the gateway calls the operation made, in order
    gateway,      \* the gateway's write call in it: "none" (not made), "ok", "failed"
    payload,      \* the **attrs mapping handed to DB.insert / DB.update
    target,       \* the identifier in the where clause handed to the gateway
    rowcount,     \* rows the gateway's fetch / update / delete matched
    out           \* the mapping a serialization returned

vars ==
    <<schema, constructed, attrs, obj_id, insertedIds, rows, lastOp, hook, outcome,
      result, calls, gateway, payload, target, rowcount, out>>

\* getattr(self, name, None)
getattr(a, n) == IF n \in DOMAIN a THEN a[n] ELSE NoneVal


\* ----------------------------------------------------------- the gateway
\* a stored row as a fetch returns it: its columns and its identifier column
FullRow(db, i) == Put(db[i], PRIMARY_KEY, i)

\* db.where(table, col=value): the identifiers of the matching rows
DB_where(db, col, value) ==
    {i \in DOMAIN db : col \in DOMAIN FullRow(db, i) /\ FullRow(db, i)[col] = value}

\* db.where(...)[0]: the first matching row
First(S) == CHOOSE i \in S : \A j \in S : i <= j

\* DB.insert(table, **attrs) storing a row under the identifier k it hands out
DB_insert(db, k, a) == [i \in (DOMAIN db) \cup {k} |-> IF i = k THEN a ELSE db[i]]

\* DB.update(table, where="pk=id", **attrs)
DB_update(db, id, a) == [i \in DOMAIN db |-> IF i = id THEN Merge(db[i], a) ELSE db[i]]

\* DB.delete(table, where="pk=id")
DB_delete(db, id) == [i \in (DOMAIN db) \ {id} |-> db[i]]

\* rows a where clause pk=id addresses
Matched(db, id) == Cardinality({i \in DOMAIN db : i = id})

\* t.commit(): the transaction's writes become the committed rows
commit(committed, pending) == pending

\* t.rollback(): the transaction's writes are dropped
rollback_commits(committed, pending) == pending
rollback(committed, pending) == committed

\* ------------------------------------------------------------ construction
\* _get_query: the row whose primary key is obj_id, IndexError turned into None
get_query(db, id) ==
    LET hits == DB_where(db, PRIMARY_KEY, id)
    IN  [hits |-> Cardinality(hits),
         found |-> hits # {},
         id |-> IF hits = {} THEN NoneVal ELSE First(hits)]

\* _set_data(raw_data): each schema key takes the value of its column, when present
set_data(sch, raw) ==
    [key \in {k \in DOMAIN sch : sch[k] \in DOMAIN raw} |-> raw[sch[key]]]

\* _set_data(None): `db_key in raw_data` raises TypeError on the first schema key
set_data_raises(sch, rawIsNone) == rawIsNone /\ DOMAIN sch # {}

\* _construct_obj_from_data: obj_id is the row's primary key entry, else None
obj_id_from_data(raw) == IF PRIMARY_KEY \in DOMAIN raw THEN raw[PRIMARY_KEY] ELSE NoneVal

\* _construct_obj_from_defaults: every schema key is None
defaults(sch) == [key \in DOMAIN sch |-> NoneVal]

\* raw rows a caller constructs from: fetched rows, and rows holding a single column
RawInputs(sch, db) ==
    {FullRow(db, i) : i \in DOMAIN db}
    \cup {[c \in {PRIMARY_KEY} |-> i] : i \in GatewayIds}
    \cup UNION {{[c \in {sch[f]} |-> v] : v \in 1 .. MaxVal} : f \in (DOMAIN sch) \ {PRIMARY_KEY}}

\* -------------------------------------------------------------- projection
\* _clean_keys(db_operation, safe): [exc, attrs]
clean_keys(sch, a, db_operation, safe) ==
    LET looped == [skey \in {s \in DOMAIN sch : Truthy(getattr(a, sch[s]))}
                     |-> getattr(a, sch[skey])]
        nopk == IF db_operation /\ PRIMARY_KEY \in DOMAIN looped
                THEN Del(looped, PRIMARY_KEY) ELSE looped
        unbound == "modified" \in DOMAIN sch /\ "created" \notin DOMAIN sch
        c == IF "created" \in DOMAIN sch THEN Put(nopk, sch["created"], utcnow) ELSE nopk
        m == IF "modified" \in DOMAIN sch THEN Put(c, sch["modified"], utcnow) ELSE c
        dropping == safe /\ "password" \in DOMAIN sch
        keyerr == dropping /\ ("password" \notin DOMAIN m \/ "salt" \notin DOMAIN m)
        s == IF dropping THEN Del(Del(m, "password"), "salt") ELSE m
    IN  IF unbound THEN [exc |-> "UnboundLocalError", attrs |-> EmptyMap]
        ELSE IF keyerr THEN [exc |-> "KeyError", attrs |-> EmptyMap]
        ELSE [exc |-> "none", attrs |-> s]

\* type(v) in BADDIES: no Decimal or datetime among the encoded values below DecimalBase
DecimalBase == 50
IsBaddie(v) == v >= DecimalBase /\ v < utcnow

\* convert_attr2json
convert_attr2json(v) == IF IsBaddie(v) THEN str(v) ELSE v

\* json_serializable(): the default serialization, over _clean_keys()
json_serializable(sch, a) ==
    LET ck == clean_keys(sch, a, FALSE, FALSE)
    IN  [exc |-> ck.exc,
         attrs |-> [k \in DOMAIN ck.attrs |-> convert_attr2json(ck.attrs[k])]]

\* _json_serializable(safe)
json_serializable_safe(sch, a, safe) ==
    [key \in {s \in DOMAIN sch :
                /\ Truthy(getattr(a, sch[s]))
                /\ (~safe \/ (safe /\ ~(s = "password" \/ s = "salt")))}
       |-> str(getattr(a, sch[key]))]


\* ------------------------------------------------------------- persistence
\* _validate() raising leaves insert() / update() before anything else runs
validate_ignored(valid) == FALSE
validate_aborts(valid) == ~valid

\* insert(): `if not pkey:`
insert_guard_dropped(pkey) == TRUE
insert_guard(pkey) == ~Truthy(pkey)

\* update(): `if pkey:`
update_guard_dropped(pkey) == TRUE
update_guard(pkey) == Truthy(pkey)

\* update(): `return self.primary_key`
update_return(pkey) == ResName(PRIMARY_KEY)

\* delete(): the identifier in its where clause, self.obj_id
delete_target(a, oid) == oid

\* a call that reaches no gateway call
NoWrite(a, db, oc, res) ==
    [attrs |-> a, rows |-> db, calls |-> <<>>, gateway |-> "none", payload |-> EmptyMap,
     target |-> NoneVal,
     rowcount |-> 0, outcome |-> oc, result |-> res, newIds |-> {}]

\* insert(), with the hook's verdict, the gateway's verdict (fails; partial: the row
\* was written inside the transaction before the failure) and the identifier k
insert(sch, a, db, valid, fails, partial, k) ==
    LET pkey == getattr(a, PRIMARY_KEY)
        ck == clean_keys(sch, a, TRUE, FALSE)
        written == DB_insert(db, k, ck.attrs)
    IN  IF validate_aborts(valid) THEN NoWrite(a, db, "ValidationFailure", ResNone)
        ELSE IF ~insert_guard(pkey) THEN NoWrite(a, db, "returned", ResFalse)
        ELSE IF ck.exc # "none" THEN NoWrite(a, db, ck.exc, ResNone)
        ELSE IF fails
        THEN [attrs |-> a, rows |-> rollback(db, IF partial THEN written ELSE db),
              calls |-> <<"transaction", "insert", "rollback">>, gateway |-> "failed",
              payload |-> ck.attrs,
              target |-> NoneVal, rowcount |-> 0, outcome |-> "GatewayFailure",
              result |-> ResNone, newIds |-> {}]
        ELSE [attrs |-> Put(a, PRIMARY_KEY, k), rows |-> commit(db, written),
              calls |-> <<"transaction", "insert", "commit">>, gateway |-> "ok",
              payload |-> ck.attrs,
              target |-> NoneVal, rowcount |-> 0, outcome |-> "returned",
              result |-> ResVal(k), newIds |-> {k}]

\* update(): `with self.DB.transaction()` commits on return, rolls back on a failure
update(sch, a, db, valid, fails, partial) ==
    LET pkey == getattr(a, PRIMARY_KEY)
        ck == clean_keys(sch, a, TRUE, FALSE)
        written == DB_update(db, pkey, ck.attrs)
        n == Matched(db, pkey)
    IN  IF validate_aborts(valid) THEN NoWrite(a, db, "ValidationFailure", ResNone)
        ELSE IF ~update_guard(pkey) THEN NoWrite(a, db, "returned", ResNone)
        ELSE IF ck.exc # "none" THEN NoWrite(a, db, ck.exc, ResNone)
        ELSE IF fails
        THEN [attrs |-> a, rows |-> rollback(db, IF partial THEN written ELSE db),
              calls |-> <<"transaction", "update", "rollback">>, gateway |-> "failed",
              payload |-> ck.attrs,
              target |-> pkey, rowcount |-> 0, outcome |-> "GatewayFailure",
              result |-> ResNone, newIds |-> {}]
        ELSE [attrs |-> a, rows |-> commit(db, written),
              calls |-> <<"transaction", "update", "commit">>, gateway |-> "ok",
              payload |-> ck.attrs,
              target |-> pkey, rowcount |-> n, outcome |-> "returned",
              result |-> IF n > 0 THEN update_return(pkey) ELSE ResNone, newIds |-> {}]


\* ------------------------------------------------------------------ actions
InitOver(S) ==
    /\ schema \in S
    /\ constructed = FALSE
    /\ attrs = EmptyMap
    /\ obj_id = NoneVal
    /\ insertedIds = {}
    /\ rows = [i \in {} |-> EmptyMap]
    /\ lastOp = "init"
    /\ hook = "none"
    /\ outcome = "returned"
    /\ result = ResNone
    /\ calls = <<>>
    /\ gateway = "none"
    /\ payload = EmptyMap
    /\ target = NoneVal
    /\ rowcount = 0
    /\ out = EmptyMap

Init == InitOver(Schemas)

InitWrite == InitOver(WriteSchemas)

\* what a step that makes no gateway write leaves behind
Observed(op, oc, res, cs, n, o) ==
    /\ lastOp' = op
    /\ hook' = "none"
    /\ outcome' = oc
    /\ result' = res
    /\ calls' = cs
    /\ gateway' = "none"
    /\ payload' = EmptyMap
    /\ target' = NoneVal
    /\ rowcount' = n
    /\ out' = o

\* API_Template(obj_id): _construct_obj_from_id
ConstructFromId ==
    \E id \in 1 .. MaxId :
        LET q == get_query(rows, id)
        IN  /\ IF set_data_raises(schema, ~q.found)
               THEN /\ UNCHANGED <<constructed, attrs, obj_id, insertedIds>>
                    /\ Observed("construct_id", "TypeError", ResNone, <<"where">>, q.hits,
                                EmptyMap)
               ELSE /\ constructed' = TRUE
                    /\ attrs' = set_data(schema, FullRow(rows, q.id))
                    /\ obj_id' = id
                    /\ insertedIds' = {}
                    /\ Observed("construct_id", "returned", ResInstance(id), <<"where">>,
                                q.hits, EmptyMap)
            /\ UNCHANGED <<schema, rows>>

\* API_Template(raw_data=row): _construct_obj_from_data
ConstructFromData ==
    \E raw \in RawInputs(schema, rows) :
        /\ constructed' = TRUE
        /\ attrs' = set_data(schema, raw)
        /\ obj_id' = obj_id_from_data(raw)
        /\ insertedIds' = {}
        /\ Observed("construct_data", "returned", ResInstance(obj_id_from_data(raw)), <<>>,
                    0, EmptyMap)
        /\ UNCHANGED <<schema, rows>>

\* API_Template(): _construct_obj_from_defaults
ConstructFromDefaults ==
    /\ constructed' = TRUE
    /\ attrs' = defaults(schema)
    /\ obj_id' = NoneVal
    /\ insertedIds' = {}
    /\ Observed("construct_defaults", "returned", ResInstance(NoneVal), <<>>, 0, EmptyMap)
    /\ UNCHANGED <<schema, rows>>

\* the caller assigns a field of the instance between persistence calls
SetAttr ==
    /\ constructed
    /\ \E key \in (DOMAIN schema) \ {PRIMARY_KEY}, v \in FieldVals :
        /\ attrs' = Put(attrs, key, v)
        /\ Observed("setattr", "returned", ResNone, <<>>, 0, EmptyMap)
    /\ UNCHANGED <<schema, constructed, obj_id, insertedIds, rows>>

\* what insert() / update() leave behind
Written(op, valid, e) ==
    /\ attrs' = e.attrs
    /\ rows' = e.rows
    /\ insertedIds' = IF getattr(attrs, PRIMARY_KEY) = NoneVal
                      THEN insertedIds \cup e.newIds ELSE insertedIds
    /\ lastOp' = op
    /\ hook' = IF valid THEN "passed" ELSE "raised"
    /\ outcome' = e.outcome
    /\ result' = e.result
    /\ calls' = e.calls
    /\ gateway' = e.gateway
    /\ payload' = e.payload
    /\ target' = e.target
    /\ rowcount' = e.rowcount
    /\ out' = EmptyMap
    /\ UNCHANGED <<schema, constructed, obj_id>>

Insert ==
    /\ constructed
    /\ \E valid \in BOOLEAN, fails \in BOOLEAN, partial \in BOOLEAN, k \in GatewayIds :
        /\ fails \/ (k \notin DOMAIN rows /\ Cardinality(DOMAIN rows) < MaxRows)
        /\ partial => fails /\ k \notin DOMAIN rows
        /\ Written("insert", valid, insert(schema, attrs, rows, valid, fails, partial, k))

Update ==
    /\ constructed
    /\ \E valid \in BOOLEAN, fails \in BOOLEAN, partial \in BOOLEAN :
        /\ partial => fails
        /\ Written("update", valid, update(schema, attrs, rows, valid, fails, partial))

\* delete(): one gateway call, its outcome returned as it is
Delete ==
    /\ constructed
    /\ \E fails \in BOOLEAN :
        LET id == delete_target(attrs, obj_id)
            n == Matched(rows, id)
        IN  /\ rows' = IF fails THEN rows ELSE DB_delete(rows, id)
            /\ lastOp' = "delete"
            /\ hook' = "none"
            /\ outcome' = IF fails THEN "GatewayFailure" ELSE "returned"
            /\ result' = IF fails THEN ResNone ELSE ResVal(n)
            /\ calls' = <<"delete">>
            /\ gateway' = IF fails THEN "failed" ELSE "ok"
            /\ payload' = EmptyMap
            /\ target' = id
            /\ rowcount' = IF fails THEN 0 ELSE n
            /\ out' = EmptyMap
    /\ UNCHANGED <<schema, constructed, attrs, obj_id, insertedIds>>

\* cls.get(obj_id)
Get ==
    /\ \E id \in GatewayIds :
        LET q == get_query(rows, id)
        IN  Observed("get", "returned", IF q.found THEN ResRow(q.id) ELSE ResNone,
                     <<"where">>, q.hits, EmptyMap)
    /\ UNCHANGED <<schema, constructed, attrs, obj_id, insertedIds, rows>>

\* cls.exists(obj_id): get, behind one more `except IndexError`
Exists ==
    /\ \E id \in GatewayIds :
        LET q == get_query(rows, id)
        IN  Observed("exists", "returned", IF q.found THEN ResRow(q.id) ELSE ResNone,
                     <<"where">>, q.hits, EmptyMap)
    /\ UNCHANGED <<schema, constructed, attrs, obj_id, insertedIds, rows>>

\* cls.get_by(attribute, value): an instance built from the first matching row, or None
GetBy ==
    /\ \E attribute \in DOMAIN schema, value \in 0 .. MaxVal :
        LET hits == DB_where(rows, schema[attribute], value)
        IN  Observed("get_by", "returned",
                     IF hits = {} THEN ResNone
                     ELSE ResInstance(obj_id_from_data(FullRow(rows, First(hits)))),
                     <<"where">>, Cardinality(hits), EmptyMap)
    /\ UNCHANGED <<schema, constructed, attrs, obj_id, insertedIds, rows>>

\* json_serializable(): the default serialization
JsonSerializable ==
    /\ constructed
    /\ LET j == json_serializable(schema, attrs)
       IN  Observed("json_serializable", IF j.exc = "none" THEN "returned" ELSE j.exc,
                    IF j.exc = "none" THEN ResDict ELSE ResNone, <<>>, 0, j.attrs)
    /\ UNCHANGED <<schema, constructed, attrs, obj_id, insertedIds, rows>>

\* _json_serializable(safe)
JsonSerializableSafe ==
    /\ constructed
    /\ \E safe \in BOOLEAN :
        Observed(IF safe THEN "_json_serializable(safe=True)"
                 ELSE "_json_serializable(safe=False)",
                 "returned", ResDict, <<>>, 0, json_serializable_safe(schema, attrs, safe))
    /\ UNCHANGED <<schema, constructed, attrs, obj_id, insertedIds, rows>>

\* _clean_keys(safe=True): the safe projection
CleanKeysSafe ==
    /\ constructed
    /\ LET ck == clean_keys(schema, attrs, FALSE, TRUE)
       IN  Observed("_clean_keys(safe=True)", IF ck.exc = "none" THEN "returned" ELSE ck.exc,
                    IF ck.exc = "none" THEN ResDict ELSE ResNone, <<>>, 0, ck.attrs)
    /\ UNCHANGED <<schema, constructed, attrs, obj_id, insertedIds, rows>>

Next ==
    \/ ConstructFromId
    \/ ConstructFromData
    \/ ConstructFromDefaults
    \/ SetAttr
    \/ Insert
    \/ Update
    \/ Delete
    \/ Get
    \/ Exists
    \/ GetBy
    \/ JsonSerializable
    \/ JsonSerializableSafe
    \/ CleanKeysSafe

Spec == Init /\ [][Next]_vars

\* construction, mutation and the persistence calls alone
NextWrite ==
    \/ ConstructFromId
    \/ ConstructFromData
    \/ ConstructFromDefaults
    \/ SetAttr
    \/ Insert
    \/ Update
    \/ Delete

SpecWrite == InitWrite /\ [][NextWrite]_vars

\* ------------------------------------------------------------------ claims
pkOf(a) == getattr(a, PRIMARY_KEY)
Called(cs, c) == \E i \in DOMAIN cs : cs[i] = c
WriteOps == {"insert", "update"}

\* an insert() step whose gateway insert succeeded: the identifier it returned is
\* the result and the primary-key attribute
InsertAssigns ==
    (lastOp' = "insert" /\ gateway' = "ok")
        => /\ outcome' = "returned"
           /\ result'.tag = "value"
           /\ pkOf(attrs') = result'.val
           /\ pkOf(attrs) = NoneVal => result'.val \in insertedIds'
           /\ result'.val \in DOMAIN rows'
           /\ calls' = <<"transaction", "insert", "commit">>

\* an insert() step that reaches no gateway call and returns False
InsertNoOp ==
    /\ calls' = <<>>
    /\ gateway' = "none"
    /\ rows' = rows
    /\ attrs' = attrs
    /\ hook' = "passed" => (outcome' = "returned" /\ result' = ResFalse /\ ResFalsy(result'))

\* C1 as claimed: after an insert() that succeeded with identifier k the primary-key
\* attribute is k and k was returned, and any later insert() on the instance is a
\* no-op returning a falsy result, for every k the gateway can return
C1_AnyIdentifier ==
    [][/\ InsertAssigns
       /\ (lastOp' = "insert" /\ insertedIds # {}) => InsertNoOp]_vars

\* C1 amended: the same, the later insert() a no-op when k is truthy
C1_TruthyIdentifier ==
    [][/\ InsertAssigns
       /\ (lastOp' = "insert" /\ \E k \in insertedIds : Truthy(k)) => InsertNoOp]_vars

C1_Witness ==
    /\ lastOp = "insert"
    /\ hook = "passed"
    /\ result = ResFalse
    /\ calls = <<>>
    /\ \E k \in insertedIds : Truthy(k) /\ pkOf(attrs) = k /\ k \in DOMAIN rows

\* C2: when the gateway's insert fails inside insert(), the transaction is rolled
\* back and not committed, the failure reaches the caller, the committed rows are
\* what they were and the primary-key attribute stays without an identifier
C2_InsertRollback ==
    [][(lastOp' = "insert" /\ gateway' = "failed")
          => /\ outcome' = "GatewayFailure"
             /\ calls' = <<"transaction", "insert", "rollback">>
             /\ ~Called(calls', "commit")
             /\ rows' = rows
             /\ attrs' = attrs
             /\ ~Truthy(pkOf(attrs'))
             /\ insertedIds' = insertedIds]_vars

C2_Witness ==
    /\ lastOp = "insert"
    /\ gateway = "failed"
    /\ outcome = "GatewayFailure"
    /\ calls = <<"transaction", "insert", "rollback">>
    /\ pkOf(attrs) = NoneVal
    /\ DOMAIN payload # {}

\* C3: the validation hook runs in every insert() and update(), and when it raises
\* the call raises that failure with no transaction, no gateway call, and the
\* attributes and the stored rows as they were
C3_ValidationFirst ==
    [][lastOp' \in WriteOps
          => /\ hook' \in {"passed", "raised"}
             /\ hook' = "raised"
                  => /\ outcome' = "ValidationFailure"
                     /\ calls' = <<>>
                     /\ gateway' = "none"
                     /\ DOMAIN payload' = {}
                     /\ rows' = rows
                     /\ attrs' = attrs]_vars

C3_Witness ==
    /\ lastOp = "update"
    /\ hook = "raised"
    /\ outcome = "ValidationFailure"
    /\ pkOf(attrs) \in DOMAIN rows
    /\ Truthy(pkOf(attrs))
    /\ \E f \in DOMAIN schema : f # PRIMARY_KEY /\ Truthy(getattr(attrs, f))

\* C4 as claimed: update() on an instance with an identifier returns the value of
\* the primary-key attribute when the gateway reports a row updated, and an empty
\* result when it reports none
C4_UpdateReturnsIdentifier ==
    (lastOp = "update" /\ gateway = "ok")
        => IF rowcount > 0
           THEN result = ResVal(pkOf(attrs))
           ELSE result = ResNone

\* C5: update() on an instance whose primary-key attribute is absent or falsy makes
\* no gateway call, leaves the rows as they were and returns None (the hook passing)
C5_UpdateWithoutId ==
    [][(lastOp' = "update" /\ ~Truthy(pkOf(attrs)))
          => /\ calls' = <<>>
             /\ gateway' = "none"
             /\ rows' = rows
             /\ attrs' = attrs
             /\ hook' = "passed" => (outcome' = "returned" /\ result' = ResNone)]_vars

C5_Witness ==
    /\ lastOp = "update"
    /\ hook = "passed"
    /\ ~Truthy(pkOf(attrs))
    /\ result = ResNone
    /\ calls = <<>>
    /\ DOMAIN rows # {}
    /\ \E f \in DOMAIN schema : Truthy(getattr(attrs, f))

\* C6 as claimed: a single-row fetch that matches no row - get, exists, get_by, the
\* constructor by identifier - raises nothing and yields an empty result
C6_NotFoundNeverRaises ==
    (lastOp \in {"get", "exists", "get_by", "construct_id"} /\ rowcount = 0)
        => /\ outcome = "returned"
           /\ lastOp # "construct_id" => result = ResNone

\* C7 as claimed: a field whose value is absent, None, empty or zero appears, under
\* its name or its column, in no payload handed to the gateway and in no
\* serialization
C7_FalsyNeverProjected ==
    LET falsy == {f \in DOMAIN schema : ~Truthy(getattr(attrs, f))}
        clean(m) == \A f \in falsy : f \notin DOMAIN m /\ schema[f] \notin DOMAIN m
    IN  /\ (lastOp \in WriteOps /\ gateway # "none") => clean(payload)
        /\ (lastOp \in {"json_serializable", "_json_serializable(safe=True)",
                        "_json_serializable(safe=False)", "_clean_keys(safe=True)"}
              /\ outcome = "returned") => clean(out)

\* C8 as claimed: with password and salt in the schema the safe serialization
\* completes without those keys whatever they hold, and the default serialization
\* holds each of them that is truthy
C8_SafeSerialization ==
    {"password", "salt"} \subseteq DOMAIN schema
        => /\ lastOp \in {"_json_serializable(safe=True)", "_clean_keys(safe=True)"}
                => /\ outcome = "returned"
                   /\ "password" \notin DOMAIN out
                   /\ "salt" \notin DOMAIN out
           /\ lastOp \in {"json_serializable", "_json_serializable(safe=False)"}
                => /\ outcome = "returned"
                   /\ \A f \in {"password", "salt"} :
                        Truthy(getattr(attrs, f)) => f \in DOMAIN out

\* C9 as claimed: the payload of insert() / update() holds every truthy field other
\* than the primary key under its storage column with its value, and never the
\* primary key
C9_PayloadByColumn ==
    (lastOp \in WriteOps /\ gateway # "none")
        => /\ PRIMARY_KEY \notin DOMAIN payload
           /\ schema[PRIMARY_KEY] \notin DOMAIN payload
           /\ \A f \in (DOMAIN schema) \ {PRIMARY_KEY} :
                Truthy(getattr(attrs, f))
                    => /\ schema[f] \in DOMAIN payload
                       /\ payload[schema[f]] = getattr(attrs, f)

\* C10 as claimed: delete() addresses the identifier update() addresses, the truthy
\* value of the primary-key attribute (none when update() addresses none), and
\* returns the gateway's outcome
C10_DeleteAddressesIdentifier ==
    lastOp = "delete"
        => /\ IF Truthy(pkOf(attrs)) THEN target = pkOf(attrs) ELSE ~Truthy(target)
           /\ outcome = "returned" => result = ResVal(rowcount)

=============================================================================
